---- MODULE Spec2Model ----
(***************************************************************************)
(* name-similarity (src/main.rs): scan directory trees, turn every file    *)
(* name into a set of n-word tokens, compare all pairs of files by the     *)
(* cosine of their token sets, sort and print the pairs above a threshold. *)
(*                                                                         *)
(* A string is a sequence of one-character strings, so that split,         *)
(* to_lowercase and "+" are computed character by character.  An f32       *)
(* cosine is kept exactly, as the pair (c, p) standing for c / sqrt(p),    *)
(* or as NaN / Inf when the division is by zero.                           *)
(***************************************************************************)
EXTENDS Integers, Sequences, FiniteSets, TLC

\* args        the parsed Args: root, threshold, reverse, trie_len, filename_pattern
\* fs          per root, what WalkDir's iterator has yielded so far
\* pc          where run is: "run" (between roots), "walk" (in scan_dir's
\*             fold), "sort", "done", or "panic"
\* r           the root flat_map is at
\* acc         the accumulator of scan_dir's fold
\* entries     the records collected from the roots scanned so far
\* duplicates  the pair list of run
VARIABLES args, fs, pc, r, acc, entries, duplicates

vars == <<args, fs, pc, r, acc, entries, duplicates>>

(* ------------------------------ bounds -------------------------------- *)

\* roots on the command line
MaxRoots == 2
\* directory entries the walker yields in one run, over all roots
MaxItems == 3
\* largest n-word width the tokenizer is tried on (the code accepts any usize)
MaxTrieLen == 5
\* length of the file names the tokenizer is tried on
MaxNameLen == 4
\* records in the list when calculate_duplicates and the sorts run alone
MaxEntries == 3

(* --------------------------- characters ------------------------------- *)

LowerChars == {"a", "b", "c", "t", "x"}
UpperChars == {"A", "B"}

\* char::is_alphanumeric
IsAlphanumeric(c) == c \in LowerChars \cup UpperChars

\* char-wise str::to_lowercase
LowerChar(c) == CASE c = "A" -> "a" [] c = "B" -> "b" [] OTHER -> c

ToLowercase(v) == IF v = <<>> THEN <<>> ELSE [k \in 1..Len(v) |-> LowerChar(v[k])]

RECURSIVE SplitFrom(_, _, _)
\* str::split(pred): the pieces between separators, empty pieces included
SplitFrom(s, k, cur) ==
    IF k > Len(s) THEN <<cur>>
    ELSE IF ~IsAlphanumeric(s[k]) THEN <<cur>> \o SplitFrom(s, k + 1, <<>>)
    ELSE SplitFrom(s, k + 1, Append(cur, s[k]))

Split(s) == SplitFrom(s, 1, <<>>)

\* the iterator `i` of process_file: fragments, lower-cased
Words(name) == LET f == Split(name) IN [k \in 1..Len(f) |-> ToLowercase(f[k])]

RECURSIVE TupleWindowsFrom(_, _, _)
\* itertools tuple_windows::<n-tuple>: every run of n consecutive items
TupleWindowsFrom(i, n, k) ==
    IF k + n - 1 > Len(i) THEN <<>>
    ELSE <<SubSeq(i, k, k + n - 1)>> \o TupleWindowsFrom(i, n, k + 1)

\* tuple_windows that stops one window early
TupleWindowsShort(i, n) ==
    LET w == TupleWindowsFrom(i, n, 1) IN SubSeq(w, 1, Len(w) - 1)

TupleWindows(i, n) == TupleWindowsFrom(i, n, 1)

Range(s) == {s[k] : k \in 1..Len(s)}

\* a + "." + &b
Dot(a, b) == a \o <<".">> \o b

\* the widths process_file has a match arm for
ValidTrieLen(trie_len) == trie_len \in 1..4

\* `parts` of process_file; the `_ => unreachable!()` arm is the caller's panic
Parts(name, trie_len) ==
    LET i == Words(name) IN
    CASE trie_len = 1 -> Range(i)
      [] trie_len = 2 -> {Dot(w[1], w[2]) : w \in Range(TupleWindows(i, 2))}
      [] trie_len = 3 -> {Dot(Dot(w[1], w[2]), w[3]) : w \in Range(TupleWindows(i, 3))}
      [] trie_len = 4 ->
            {Dot(Dot(Dot(w[1], w[2]), w[3]), w[4]) : w \in Range(TupleWindows(i, 4))}
      [] OTHER -> {}

(* ----------------------------- patterns ------------------------------- *)

\* the patterns tried: the default, an anchored one, and one that does not parse
Patterns == {".*", "^a", "("}

\* regex::Regex::new(pattern).is_ok()
RegexOk(pattern) == pattern # "("

\* Regex::is_match on a base name
IsMatch(pattern, name) ==
    CASE pattern = ".*" -> TRUE
      [] pattern = "^a" -> Len(name) > 0 /\ name[1] = "a"
      [] OTHER -> FALSE

(* ------------------------------ cosine -------------------------------- *)

\* 0.0 / 0.0 and x / 0.0 in f32
NaN == [kind |-> "nan", c |-> 0, p |-> 0]
Inf == [kind |-> "inf", c |-> 0, p |-> 0]

\* (c as f32) / ((l1_sum * l2_sum) as f32).sqrt(), kept as c / sqrt(p)
Cosine(c, l1_sum, l2_sum) ==
    IF l1_sum * l2_sum = 0
    THEN (IF c = 0 THEN NaN ELSE Inf)
    ELSE [kind |-> "num", c |-> c, p |-> l1_sum * l2_sum]

\* the thresholds tried, as num / den: 0, 0.5, the default 0.6, and 1
Thresholds ==
    {[num |-> 0, den |-> 1], [num |-> 1, den |-> 2], [num |-> 3, den |-> 5], [num |-> 1, den |-> 1]}

\* cosine >= threshold, the comparison that lets equality through
GreaterOrEqual(cosine, threshold) ==
    CASE cosine.kind = "nan" -> FALSE
      [] cosine.kind = "inf" -> TRUE
      [] OTHER ->
            (cosine.c * threshold.den) * (cosine.c * threshold.den)
                >= threshold.num * threshold.num * cosine.p

\* cosine > threshold on f32: false for NaN; c / sqrt(p) > num / den by squaring
GreaterThan(cosine, threshold) ==
    CASE cosine.kind = "nan" -> FALSE
      [] cosine.kind = "inf" -> TRUE
      [] OTHER ->
            (cosine.c * threshold.den) * (cosine.c * threshold.den)
                > threshold.num * threshold.num * cosine.p

RECURSIVE IsqrtIn(_, _, _)
\* the largest q in lo..hi with q * q <= n
IsqrtIn(n, lo, hi) ==
    IF lo >= hi THEN lo
    ELSE LET mid == (lo + hi + 1) \div 2 IN
         IF mid * mid <= n THEN IsqrtIn(n, mid, hi) ELSE IsqrtIn(n, lo, mid - 1)

\* (v.0 * 10000.0) as u64: the cast truncates, sends NaN to 0 and saturates
\* at infinity (the largest integer stands for u64::MAX)
QuantizedScore(cosine) ==
    CASE cosine.kind = "nan" -> 0
      [] cosine.kind = "inf" -> 2147483647
      [] OTHER -> IsqrtIn((100000000 * cosine.c * cosine.c) \div cosine.p, 0, 10000 * cosine.c)

(* ------------------------ calculate_duplicates ------------------------ *)

\* the loop body pushing (path_b, path_a): the earlier record first
CandidateSwapped(ents, i, j) ==
    LET words_a == ents[i].words
        words_b == ents[j].words
        ab_words == words_a \cap words_b
        cosine == Cosine(Cardinality(ab_words), Cardinality(words_a), Cardinality(words_b))
    IN  <<cosine, ents[j].path, ents[i].path, ents[i].size + ents[j].size>>

\* the loop body for one (i, j): the tuple pushed when cosine > threshold
Candidate(ents, i, j) ==
    LET words_a == ents[i].words
        words_b == ents[j].words
        ab_words == words_a \cap words_b
        cosine == Cosine(Cardinality(ab_words), Cardinality(words_a), Cardinality(words_b))
    IN  <<cosine, ents[i].path, ents[j].path, ents[i].size + ents[j].size>>

RECURSIVE InnerLoop(_, _, _, _, _)
\* for j in 0..i (1-based here: j in 1..i-1)
InnerLoop(ents, threshold, i, j, dups) ==
    IF j >= i THEN dups
    ELSE LET v == Candidate(ents, i, j) IN
         InnerLoop(ents, threshold, i, j + 1,
                   IF GreaterThan(v[1], threshold) THEN Append(dups, v) ELSE dups)

RECURSIVE OuterLoop(_, _, _, _)
\* for (i, ..) in entries.iter().enumerate()
OuterLoop(ents, threshold, i, dups) ==
    IF i > Len(ents) THEN dups
    ELSE OuterLoop(ents, threshold, i + 1, InnerLoop(ents, threshold, i, 1, dups))

CalculateDuplicates(ents, threshold) == OuterLoop(ents, threshold, 1, <<>>)

(* --------------------------- sort, reverse ---------------------------- *)

\* slice::sort_by_key, a stable sort: keys[k] is the key of s[k]
SortByKey(s, keys) ==
    LET n == Len(s)
        Rank(k) == 1 + Cardinality({m \in 1..n :
                        keys[m] < keys[k] \/ (keys[m] = keys[k] /\ m < k)})
    IN  IF n = 0 THEN <<>>
        ELSE [q \in 1..n |-> s[CHOOSE k \in 1..n : Rank(k) = q]]

\* duplicates.sort_by_key(|v| v.3)
SortBySize(d) == SortByKey(d, [k \in 1..Len(d) |-> d[k][4]])

\* duplicates.sort_by_key(|v| (v.0 * 10000.0) as u64)
SortByScore(d) == SortByKey(d, [k \in 1..Len(d) |-> QuantizedScore(d[k][1])])

RECURSIVE ReverseFrom(_, _)
\* slice::reverse: swap the ends, moving inwards
ReverseFrom(s, k) ==
    LET n == Len(s) IN
    IF k >= n + 1 - k THEN s
    ELSE ReverseFrom([s EXCEPT ![k] = s[n + 1 - k], ![n + 1 - k] = s[k]], k + 1)

RECURSIVE ReverseShortFrom(_, _)
\* a reverse whose loop stops one swap early
ReverseShortFrom(s, k) ==
    LET n == Len(s) IN
    IF k + 1 >= n + 1 - k THEN s
    ELSE ReverseShortFrom([s EXCEPT ![k] = s[n + 1 - k], ![n + 1 - k] = s[k]], k + 1)

VecReverseShort(s) == ReverseShortFrom(s, 1)

VecReverse(s) == ReverseFrom(s, 1)

\* the two sorts in the other order: by score, then by size
SortAndReverseScoreFirst(d, reverse) ==
    LET sorted == SortBySize(SortByScore(d)) IN
    IF reverse THEN VecReverse(sorted) ELSE sorted

\* the two sorts and the optional reverse of run
SortAndReverse(d, reverse) ==
    LET sorted == SortByScore(SortBySize(d)) IN
    IF reverse THEN VecReverse(sorted) ELSE sorted

(* ---------------------------- the scanner ----------------------------- *)

\* file names and sizes found under the roots of a whole run
ScanNames == {<<"a", "-", "b">>, <<"B">>}
ScanLens == {1}

\* regular files: DirEntry values whose metadata() is read and is_file(); len
\* is what entry.metadata().map(|m| m.len()).unwrap_or_default() gives
FileItems(names, lens) == {[kind |-> "file", name |-> n, len |-> l] : n \in names, l \in lens}

\* what WalkDir's iterator can yield: an Err (a missing root yields one), or a
\* DirEntry whose metadata() fails ("nometa"), is not a regular file ("other"),
\* or is one ("file")
Items(names, lens) ==
    {[kind |-> "err", name |-> <<>>, len |-> 0], [kind |-> "nometa", name |-> <<>>, len |-> 0]}
    \cup {[kind |-> "other", name |-> n, len |-> 0] : n \in names}
    \cup FileItems(names, lens)

\* process_file reaches its `_ => unreachable!()` arm
ProcessFilePanics(entry, filename_pattern, trie_len) ==
    /\ entry.kind = "file"
    /\ IsMatch(filename_pattern, entry.name)
    /\ ~ValidTrieLen(trie_len)

\* process_file giving up on an entry whose metadata cannot be read: the
\* records gathered so far are lost
ProcessFileAbort(a, entry, path, filename_pattern, trie_len) ==
    IF entry.kind # "nometa"
    THEN IF entry.kind = "file" /\ IsMatch(filename_pattern, entry.name)
         THEN Append(a, [path |-> path, size |-> entry.len,
                         words |-> Parts(entry.name, trie_len)])
         ELSE a
    ELSE <<>>

\* process_file: acc, with the record of a matching regular file pushed
ProcessFile(a, entry, path, filename_pattern, trie_len) ==
    IF entry.kind # "nometa"
    THEN IF entry.kind = "file" /\ IsMatch(filename_pattern, entry.name)
         THEN Append(a, [path |-> path, size |-> entry.len,
                         words |-> Parts(entry.name, trie_len)])
         ELSE a
    ELSE a

\* directory entries yielded so far, over all roots
RECURSIVE SumLen(_, _)
SumLen(f, k) == IF k > Len(f) THEN 0 ELSE Len(f[k]) + SumLen(f, k + 1)
Visited == SumLen(fs, 1)

(* ------------------------------- run ---------------------------------- *)

RootLists == {[k \in 1..n |-> k] : n \in 0..MaxRoots}

\* the widths a whole run is tried with: two valid ones, and 5 (--trie-len=5)
ScanTrieLens == {1, 2, 5}

Init ==
    /\ args \in [root : RootLists, threshold : Thresholds, reverse : BOOLEAN,
                 trie_len : ScanTrieLens, filename_pattern : Patterns]
    /\ fs = [k \in 1..Len(args.root) |-> <<>>]
    /\ pc = "run"
    /\ r = 1
    /\ acc = <<>>
    /\ entries = <<>>
    /\ duplicates = <<>>

\* flat_map pulls the next root: scan_dir compiles the pattern, then walks
ScanDir ==
    /\ pc = "run"
    /\ r <= Len(args.root)
    /\ pc' = IF RegexOk(args.filename_pattern) THEN "walk" ELSE "panic"
    /\ acc' = <<>>
    /\ UNCHANGED <<args, fs, r, entries, duplicates>>

\* one step of the fold over WalkDir::new(root).into_iter().flatten()
WalkYield(item) ==
    /\ pc = "walk"
    /\ fs' = [fs EXCEPT ![r] = Append(@, item)]
    /\ IF item.kind = "err"
       THEN UNCHANGED <<pc, acc>>
       ELSE IF ProcessFilePanics(item, args.filename_pattern, args.trie_len)
            THEN pc' = "panic" /\ UNCHANGED acc
            ELSE /\ acc' = ProcessFile(acc, item, <<r, Len(fs[r]) + 1>>,
                                       args.filename_pattern, args.trie_len)
                 /\ UNCHANGED pc
    /\ UNCHANGED <<args, r, entries, duplicates>>

Walk ==
    /\ Visited < MaxItems
    /\ \E item \in Items(ScanNames, ScanLens) : WalkYield(item)

\* the walk of this root is over: scan_dir returns, flat_map takes its records
ScanDirReturn ==
    /\ pc = "walk"
    /\ entries' = entries \o acc
    /\ acc' = <<>>
    /\ r' = r + 1
    /\ pc' = "run"
    /\ UNCHANGED <<args, fs, duplicates>>

\* all roots scanned: calculate_duplicates(&entries, args.threshold)
Calculate ==
    /\ pc = "run"
    /\ r > Len(args.root)
    /\ duplicates' = CalculateDuplicates(entries, args.threshold)
    /\ pc' = "sort"
    /\ UNCHANGED <<args, fs, r, acc, entries>>

\* the two sorts and the optional reverse; the results are then printed
Sort ==
    /\ pc = "sort"
    /\ duplicates' = SortAndReverse(duplicates, args.reverse)
    /\ pc' = "done"
    /\ UNCHANGED <<args, fs, r, acc, entries>>

Next == ScanDir \/ Walk \/ ScanDirReturn \/ Calculate \/ Sort

Spec == Init /\ [][Next]_vars

(* ------------- calculate_duplicates and the sorts, alone --------------- *)

\* --trie-len's default
DefaultTrieLen == 2

\* names whose 2-word token sets are {}, {a.b}, {a.b, b.a} and {a.b, b.c}
CalcNames ==
    {<<"a">>, <<"a", "-", "b">>, <<"a", "-", "b", "-", "a">>, <<"a", "-", "b", "-", "c">>}
CalcLens == {1, 2}

RECURSIVE ScanWalk(_, _, _, _, _, _)
\* scan_dir's fold over a whole walk, from entry k on
ScanWalk(walk, k, a, root, filename_pattern, trie_len) ==
    IF k > Len(walk) THEN a
    ELSE ScanWalk(walk, k + 1,
                  IF walk[k].kind = "err" THEN a
                  ELSE ProcessFile(a, walk[k], <<root, k>>, filename_pattern, trie_len),
                  root, filename_pattern, trie_len)

\* run, just after its one root has been scanned: every list of up to
\* MaxEntries regular files, every threshold, both directions
InitCalc ==
    /\ args \in [root : {<<1>>}, threshold : Thresholds, reverse : BOOLEAN,
                 trie_len : {DefaultTrieLen}, filename_pattern : {".*"}]
    /\ fs \in {<<w>> : w \in UNION {[1..n -> FileItems(CalcNames, CalcLens)] : n \in 0..MaxEntries}}
    /\ pc = "run"
    /\ r = 2
    /\ acc = <<>>
    /\ entries = ScanWalk(fs[1], 1, <<>>, 1, args.filename_pattern, args.trie_len)
    /\ duplicates = <<>>

NextCalc == Calculate \/ Sort

SpecCalc == InitCalc /\ [][NextCalc]_vars

(* --------------------------- the tokenizer, alone ---------------------- *)

TokChars == {"a", "B", "-", "."}

\* the example name of the specification, a-b_c.txt
ExampleName == <<"a", "-", "b", "_", "c", ".", "t", "x", "t">>

\* every name of 1..MaxNameLen characters that a file can have ("." and ".."
\* are no file's name), and the example
TokNames ==
    (UNION {[1..n -> TokChars] : n \in 1..MaxNameLen} \ {<<".">>, <<".", ".">>})
        \cup {ExampleName}

\* scan_dir of the one root, its pattern compiled, about to fold the first entry
InitTok ==
    /\ args \in [root : {<<1>>}, threshold : {[num |-> 3, den |-> 5]}, reverse : {FALSE},
                 trie_len : 0..MaxTrieLen, filename_pattern : {".*", "^a"}]
    /\ fs = << <<>> >>
    /\ pc = "walk"
    /\ r = 1
    /\ acc = <<>>
    /\ entries = <<>>
    /\ duplicates = <<>>

\* the walker yields one regular file, and process_file tokenizes its name
WalkFile ==
    /\ Visited = 0
    /\ \E item \in FileItems(TokNames, ScanLens) : WalkYield(item)

NextTok == WalkFile

SpecTok == InitTok /\ [][NextTok]_vars

(* ------------------------------ claims -------------------------------- *)

\* directory entries read so far: the DirEntry values handed to process_file
EntriesRead ==
    Cardinality({x \in UNION {{<<rr, k>> : k \in 1..Len(fs[rr])} : rr \in 1..Len(fs)} :
                    fs[x[1]][x[2]].kind # "err"})

\* every root has been scanned and run went on to calculate_duplicates
Scanned == pc \in {"sort", "done"} \/ (pc = "run" /\ r > Len(args.root))

\* |Wa \cap Wb| / sqrt(|Wa| * |Wb|) > num / den in exact arithmetic, the
\* cosine with an empty set being 0
Exceeds(wa, wb, t) ==
    LET c == Cardinality(wa \cap wb)
        p == Cardinality(wa) * Cardinality(wb)
    IN  p > 0 /\ c * c * t.den * t.den > t.num * t.num * p

\* |Wa \cap Wb| / sqrt(|Wa| * |Wb|) = num / den, both sets non-empty
Meets(wa, wb, t) ==
    LET c == Cardinality(wa \cap wb)
        p == Cardinality(wa) * Cardinality(wb)
    IN  p > 0 /\ c * c * t.den * t.den = t.num * t.num * p

\* C1: calculate_duplicates emits every pair of positions (i, j), j < i, whose
\* cosine exceeds the threshold exactly once, as (record i, record j) with
\* their combined size, and nothing else; so at most n*(n-1)/2 pairs, and
\* none when n < 2.
C1_EachPairOnce ==
    pc = "sort" =>
        LET n == Len(entries)
            d == duplicates
        IN  /\ \A i \in 1..n : \A j \in 1..(i - 1) :
                   Cardinality({k \in 1..Len(d) :
                       d[k][2] = entries[i].path /\ d[k][3] = entries[j].path})
                     = (IF Exceeds(entries[i].words, entries[j].words, args.threshold)
                        THEN 1 ELSE 0)
            /\ \A k \in 1..Len(d) : \E i \in 1..n : \E j \in 1..(i - 1) :
                   /\ d[k][2] = entries[i].path
                   /\ d[k][3] = entries[j].path
                   /\ d[k][4] = entries[i].size + entries[j].size
            /\ 2 * Len(d) <= n * (n - 1)
            /\ (n < 2 => d = <<>>)

\* three records, of which some pairs are emitted and some are not
C1_Witness ==
    /\ pc = "sort"
    /\ Len(entries) = 3
    /\ Len(duplicates) = 2

\* C2: whenever either record of a compared pair has an empty token set, the
\* value calculate_duplicates computes for the pair is 0 (not NaN).
C2_EmptySetCosineIsZero ==
    pc = "sort" =>
        \A i \in 1..Len(entries) : \A j \in 1..(i - 1) :
            (entries[i].words = {} \/ entries[j].words = {}) =>
                LET cosine == Candidate(entries, i, j)[1] IN
                cosine.kind = "num" /\ cosine.c = 0

\* C3: a run whose width is outside 1..4 reads no directory entry and never
\* completes with a result (stated for runs with a root and a pattern that
\* parses, where the width is the only configuration error).
C3_InvalidWidthFailsFast ==
    (~ValidTrieLen(args.trie_len) /\ RegexOk(args.filename_pattern) /\ Len(args.root) > 0)
        => (EntriesRead = 0 /\ pc # "done")

\* C4: a recorded file whose name has no alphanumeric character has an empty
\* token set.
C4_PunctuationNameHasNoTokens ==
    (Len(acc) = 1 /\ \A k \in 1..Len(fs[1][1].name) : ~IsAlphanumeric(fs[1][1].name[k]))
        => acc[1].words = {}

\* the cosine is a number that is at most num / den
AtMost(cosine, t) ==
    /\ cosine.kind = "num"
    /\ cosine.c * cosine.c * t.den * t.den <= t.num * t.num * cosine.p

IsFloorScore(q, cosine) ==
    /\ cosine.kind = "num"
    /\ q * q * cosine.p <= 100000000 * cosine.c * cosine.c
    /\ (q + 1) * (q + 1) * cosine.p > 100000000 * cosine.c * cosine.c

\* calculate_duplicates emits v before w: by the later record, then the earlier
EmittedBefore(v, w) ==
    \/ v[2][2] < w[2][2]
    \/ (v[2][2] = w[2][2] /\ v[3][2] < w[3][2])

\* C6: after the two sorts the pairs emitted are in ascending order of
\* floor(cosine * 10000); equal scores are in ascending order of combined
\* size; pairs equal in both are in the order of emission.
C6_SortedByScoreThenSize ==
    (pc = "done" /\ ~args.reverse) =>
        LET d == duplicates
            e == CalculateDuplicates(entries, args.threshold)
            q == [k \in 1..Len(d) |-> QuantizedScore(d[k][1])]
        IN  /\ Len(d) = Len(e)
            /\ Range(d) = Range(e)
            /\ \A k \in 1..Len(d) : IsFloorScore(q[k], d[k][1])
            /\ \A k \in 1..Len(d) : \A m \in (k + 1)..Len(d) :
                   /\ q[k] <= q[m]
                   /\ (q[k] = q[m] => d[k][4] <= d[m][4])
                   /\ (q[k] = q[m] /\ d[k][4] = d[m][4] => EmittedBefore(d[k], d[m]))

\* the size sort moved a pair ahead of an equal-score pair emitted before it,
\* and two pairs equal in both keys kept their order
C6_Witness ==
    /\ pc = "done"
    /\ ~args.reverse
    /\ \E k \in 1..Len(duplicates) : \E m \in (k + 1)..Len(duplicates) :
           /\ QuantizedScore(duplicates[k][1]) = QuantizedScore(duplicates[m][1])
           /\ duplicates[k][4] < duplicates[m][4]
           /\ EmittedBefore(duplicates[m], duplicates[k])
    /\ \E k \in 1..Len(duplicates) : \E m \in (k + 1)..Len(duplicates) :
           /\ QuantizedScore(duplicates[k][1]) = QuantizedScore(duplicates[m][1])
           /\ duplicates[k][4] = duplicates[m][4]

\* the m-th of the positions that bound the fragments of a name: 0, every
\* non-alphanumeric position, and Len + 1
Boundaries(name) ==
    {0, Len(name) + 1} \cup {k \in 1..Len(name) : ~IsAlphanumeric(name[k])}
NthBoundary(name, m) ==
    CHOOSE b \in Boundaries(name) : Cardinality({x \in Boundaries(name) : x < b}) = m - 1
FragmentCount(name) == Cardinality(Boundaries(name)) - 1

\* the m-th fragment, lower-cased
Fragment(name, m) ==
    LET piece == SubSeq(name, NthBoundary(name, m) + 1, NthBoundary(name, m + 1) - 1) IN
    IF piece = <<>> THEN <<>> ELSE [k \in 1..Len(piece) |-> LowerChar(piece[k])]

RECURSIVE JoinWindow(_, _, _)
\* fragments m .. m + n - 1 joined with "."
JoinWindow(name, m, n) ==
    IF n = 1 THEN Fragment(name, m)
    ELSE JoinWindow(name, m, n - 1) \o <<".">> \o Fragment(name, m + n - 1)

WindowTokens(name, n) == {JoinWindow(name, m, n) : m \in 1..(FragmentCount(name) - n + 1)}

\* C7: for a width L in 1..4 the token set of a recorded name is the set of
\* its windows of L consecutive lower-cased fragments joined with "." (the
\* fragments themselves for L = 1); a-b_c.txt gives {a.b, b.c, c.txt} at L = 2
\* and {a, b, c, txt} at L = 1; fewer than L fragments give the empty set,
\* and no width in 1..4 fails.
C7_TokensAreWindows ==
    (Visited = 1 /\ ValidTrieLen(args.trie_len)) =>
        LET name == fs[1][1].name
            L == args.trie_len
        IN  /\ pc = "walk"
            /\ IsMatch(args.filename_pattern, name) =>
                   /\ Len(acc) = 1
                   /\ acc[1].words = WindowTokens(name, L)
                   /\ (FragmentCount(name) < L => acc[1].words = {})
                   /\ (name = ExampleName /\ L = 2 =>
                          acc[1].words = {<<"a", ".", "b">>, <<"b", ".", "c">>,
                                          <<"c", ".", "t", "x", "t">>})
                   /\ (name = ExampleName /\ L = 1 =>
                          acc[1].words = {<<"a">>, <<"b">>, <<"c">>, <<"t", "x", "t">>})

\* a-b_c.txt has been tokenized at width 2
C7_Witness ==
    /\ Len(acc) = 1
    /\ fs[1][1].name = ExampleName
    /\ args.trie_len = 2
    /\ Cardinality(acc[1].words) = 3

\* the regular file with a matching base name at position k of root rr's walk
Matching(rr, k) ==
    fs[rr][k].kind = "file" /\ IsMatch(args.filename_pattern, fs[rr][k].name)

\* C8: when scanning is over, the records are exactly the regular files with
\* a matching base name of every root, each once, in root order then
\* traversal order: errors, entries without metadata and missing roots add
\* nothing and stop nothing (a run only fails on its configuration).
C8_ScanSkipsErrors ==
    /\ Scanned =>
        /\ \A rr \in 1..Len(fs) : \A k \in 1..Len(fs[rr]) :
               Cardinality({m \in 1..Len(entries) : entries[m].path = <<rr, k>>})
                 = (IF Matching(rr, k) THEN 1 ELSE 0)
        /\ \A m \in 1..Len(entries) :
               /\ entries[m].path[1] \in 1..Len(fs)
               /\ entries[m].path[2] \in 1..Len(fs[entries[m].path[1]])
               /\ entries[m].size = fs[entries[m].path[1]][entries[m].path[2]].len
        /\ \A m \in 1..Len(entries) : \A mm \in (m + 1)..Len(entries) :
               \/ entries[m].path[1] < entries[mm].path[1]
               \/ /\ entries[m].path[1] = entries[mm].path[1]
                  /\ entries[m].path[2] < entries[mm].path[2]
    /\ pc = "panic" =>
           ~RegexOk(args.filename_pattern) \/ ~ValidTrieLen(args.trie_len)

\* a missing root, then a root with an unreadable entry before a file that is
\* recorded all the same
C8_Witness ==
    /\ pc = "done"
    /\ Len(fs) = 2
    /\ Len(fs[1]) = 1 /\ fs[1][1].kind = "err"
    /\ Len(fs[2]) = 2 /\ fs[2][1].kind = "nometa" /\ fs[2][2].kind = "file"
    /\ Len(entries) = 1

\* C9: a run whose pattern does not parse reads no directory entry and never
\* completes with a result.
C9_BadPatternFailsFast ==
    ~RegexOk(args.filename_pattern) => (EntriesRead = 0 /\ pc # "done")

\* C10: the output of a run with reverse set is, element by element, the
\* output of the run on the same records and threshold without it, reversed.
C10_ReverseIsReversal ==
    (pc = "done" /\ args.reverse) =>
        LET forward == SortAndReverse(CalculateDuplicates(entries, args.threshold), FALSE)
            n == Len(forward)
        IN  /\ Len(duplicates) = n
            /\ \A k \in 1..n : duplicates[k] = forward[n + 1 - k]

\* a reversed output of three pairs, two of them tied on score
C10_Witness ==
    /\ pc = "done"
    /\ args.reverse
    /\ Len(duplicates) = 3
    /\ QuantizedScore(duplicates[1][1]) = QuantizedScore(duplicates[2][1])
    /\ duplicates[1][4] > duplicates[2][4]

====
